---- MODULE Spec2Model ----
(***************************************************************************)
(* Model of server.js: an Express relay with a CORS layer, GET /health and *)
(* POST /api/tutor, which forwards one chat request to the upstream model  *)
(* API and maps its failures to HTTP statuses.                             *)
(*                                                                         *)
(* Requests are served concurrently: each exchange in flight has a slot    *)
(* with its control state, and the variables run, req, calls, settled,     *)
(* responses and fault hold what the most recent run of server code read   *)
(* and did (a run is what executes between two returns to the event loop). *)
(*                                                                         *)
(* JavaScript values are tagged records (field t is the typeof tag).       *)
(* A JavaScript string is a sequence of text chunks; a whitespace          *)
(* character and a comma are always chunks of their own, so trim() and     *)
(* split(',') are computed on the sequence.                                *)
(***************************************************************************)
EXTENDS Integers, Sequences, FiniteSets, TLC

VARIABLES env, slots, run, req, calls, settled, responses, fault

vars == <<env, slots, run, req, calls, settled, responses, fault>>

\* Longest conversationHistory array a request carries.
MaxHistory == 2

\* Most exchanges in flight at the same time.
MaxInFlight == 2

----------------------------------------------------------------------------
\* JavaScript values

Undefined == [t |-> "undefined"]
Null == [t |-> "null"]
Str(s) == [t |-> "string", s |-> s]
Num(n) == [t |-> "number", n |-> n]
Bool(b) == [t |-> "boolean", b |-> b]
Arr(a) == [t |-> "array", a |-> a]

\* ToBoolean: undefined, null, '', 0 and false are falsy, everything else truthy.
Truthy(v) ==
  CASE v.t = "undefined" -> FALSE
    [] v.t = "null" -> FALSE
    [] v.t = "string" -> v.s # <<>>
    [] v.t = "number" -> v.n # 0
    [] v.t = "boolean" -> v.b
    [] OTHER -> TRUE

\* What trim() strips: WhiteSpace and LineTerminator of ECMAScript.  A character
\* with no escape in this notation is the chunk spelling its JavaScript escape.
WhiteSpace ==
  {" ", "\t", "\n", "\r", "\f", "\\v", "\\u00A0", "\\u1680", "\\u2000", "\\u2001",
   "\\u2002", "\\u2003", "\\u2004", "\\u2005", "\\u2006", "\\u2007", "\\u2008",
   "\\u2009", "\\u200A", "\\u2028", "\\u2029", "\\u202F", "\\u205F", "\\u3000",
   "\\uFEFF"}

RECURSIVE TrimStart(_)
TrimStart(s) ==
  IF s # <<>> /\ Head(s) \in WhiteSpace THEN TrimStart(Tail(s)) ELSE s

RECURSIVE TrimEnd(_)
TrimEnd(s) ==
  IF s # <<>> /\ s[Len(s)] \in WhiteSpace
  THEN TrimEnd(SubSeq(s, 1, Len(s) - 1))
  ELSE s

\* String.prototype.trim
Trim(s) == TrimEnd(TrimStart(s))

\* String.prototype.split(','): always at least one piece.
RECURSIVE SplitComma(_, _)
SplitComma(s, cur) ==
  IF s = <<>> THEN <<cur>>
  ELSE IF Head(s) = "," THEN <<cur>> \o SplitComma(Tail(s), <<>>)
  ELSE SplitComma(Tail(s), Append(cur, Head(s)))

Range(f) == {f[i] : i \in DOMAIN f}

RECURSIVE SeqsUpTo(_, _)
SeqsUpTo(S, n) ==
  IF n = 0 THEN {<<>>}
  ELSE LET shorter == SeqsUpTo(S, n - 1)
       IN  shorter \cup {Append(q, x) : q \in {p \in shorter : Len(p) = n - 1}, x \in S}

----------------------------------------------------------------------------
\* Process-wide configuration (process.env), read-only after startup

KeyValues == {Undefined, Str(<<>>), Str(<<"sk-test">>)}

NodeEnvValues == {Undefined, Str(<<"development">>), Str(<<"production">>)}

AllowedOriginsValues ==
  {Undefined, Str(<<"https://app.example", ",", " ", "https://b.example">>)}

Envs ==
  [OPENAI_API_KEY : KeyValues, NODE_ENV : NodeEnvValues,
   ALLOWED_ORIGINS : AllowedOriginsValues]

DefaultOrigins == <<Str(<<"http://localhost:5173">>), Str(<<"https://barbarapdfeditor.net">>)>>

\* process.env.ALLOWED_ORIGINS?.split(',') || [the two defaults]
allowedOrigins ==
  IF env.ALLOWED_ORIGINS.t = "string"
  THEN LET parts == SplitComma(env.ALLOWED_ORIGINS.s, <<>>)
       IN  [i \in 1..Len(parts) |-> Str(parts[i])]
  ELSE DefaultOrigins

----------------------------------------------------------------------------
\* Requests

Origins ==
  {Undefined, Str(<<>>), Str(<<"http://localhost:5173">>),
   Str(<<"https://app.example">>), Str(<<"https://b.example">>),
   Str(<<"https://evil.example">>)}

Routes == {"health", "tutor"}

ImageRef == Str(<<"data:image/png;base64,AAAA">>)

Turns ==
  {[role |-> Str(<<"user">>), content |-> Str(<<"q1">>), image |-> Undefined],
   [role |-> Str(<<"user">>), content |-> Str(<<"q2">>), image |-> ImageRef],
   [role |-> Str(<<"assistant">>), content |-> Str(<<"a1">>), image |-> Undefined],
   [role |-> Str(<<"system">>), content |-> Str(<<"s1">>), image |-> ImageRef]}

Histories ==
  {Undefined, Null, Str(<<"abc">>)} \cup {Arr(h) : h \in SeqsUpTo(Turns, MaxHistory)}

Question == Str(<<" ", "What is 2+2?", " ">>)

Messages ==
  {Undefined, Null, Str(<<>>), Str(<<" ", "\t", "\r", "\n", "\f", "\\u00A0">>), Question,
   Num(5), Num(0), Bool(FALSE), Bool(TRUE)}

Images == {Undefined, Str(<<>>), ImageRef}

SelectedTexts == {Undefined, Str(<<"photosynthesis">>)}

\* req.body after express.json(): a parsed JSON object, or undefined when the
\* request carried no JSON body.
Body(m, h, s, i) ==
  [t |-> "object", message |-> m, conversationHistory |-> h, selectedText |-> s,
   image |-> i]

\* req.body after express.json(): undefined when the request carried no JSON
\* body, or a parsed JSON object.  The objects explored: every message with
\* every image, every history, and a selectedText with and without an image.
Bodies ==
  {Undefined}
  \cup {Body(m, Undefined, Undefined, i) : m \in Messages, i \in Images}
  \cup {Body(Question, h, Undefined, Undefined) : h \in Histories}
  \cup {Body(Question, Arr(<<CHOOSE turn \in Turns : turn.role = Str(<<"system">>)>>), s, ImageRef) :
          s \in SelectedTexts}
  \cup {Body(Question, Undefined, s, Undefined) : s \in SelectedTexts}

\* A part of the request the run did not read.
Unread == [t |-> "unread"]

NoRequest == [route |-> "none", origin |-> Unread, body |-> Unread]

----------------------------------------------------------------------------
\* Upstream outcomes of openai.chat.completions.create

GoodCompletion ==
  [choices |-> <<[message |-> [content |-> Str(<<"4">>)]]>>, usage |-> Str(<<"usage">>)]

MalformedCompletion == [choices |-> <<>>, usage |-> Undefined]

ErrorStatuses == {Num(400), Num(401), Num(429), Num(500), Num(503), Undefined}

Outcomes ==
  {[kind |-> "resolve", completion |-> c] : c \in {GoodCompletion, MalformedCompletion}}
  \cup
  {[kind |-> "reject", error |-> [status |-> s, message |-> Str(<<"upstream said no">>)]] :
     s \in ErrorStatuses}

\* No upstream call has settled.
NoOutcome == [kind |-> "none"]

TypeError(text) == [status |-> Undefined, message |-> Str(<<text>>)]

----------------------------------------------------------------------------
\* CORS layer

\* Variant: the Origin is compared after trimming, so ' https://b.example' of a
\* list written "a, b" admits https://b.example.
OriginAllowedTrimmed(origin) ==
  IF ~Truthy(origin) THEN TRUE
  ELSE \E i \in DOMAIN allowedOrigins : Trim(allowedOrigins[i].s) = origin.s

\* The origin callback: no Origin header (or an empty one) passes, otherwise
\* the Origin must be an element of allowedOrigins.
OriginAllowed(origin) ==
  IF ~Truthy(origin) THEN TRUE ELSE origin \in Range(allowedOrigins)

\* callback(new Error('Not allowed by CORS')) goes to next(err): the default
\* error handler answers 500 and no route handler runs.
CorsRejection ==
  [by |-> "cors", status |-> 500,
   json |-> [error |-> Str(<<"Not allowed by CORS">>), details |-> Undefined]]

----------------------------------------------------------------------------
\* GET /health

\* Variant: openaiConfigured tests the variable for being defined, not truthy.
HealthResponseDefined ==
  [by |-> "health", status |-> 200,
   json |-> [status |-> "ok", message |-> "BarbaraPDF Backend Running",
             openaiConfigured |-> env.OPENAI_API_KEY # Undefined]]

HealthResponse ==
  [by |-> "health", status |-> 200,
   json |-> [status |-> "ok", message |-> "BarbaraPDF Backend Running",
             openaiConfigured |-> Truthy(env.OPENAI_API_KEY)]]

----------------------------------------------------------------------------
\* POST /api/tutor

\* const { message, conversationHistory = [], selectedText = '', image } = req.body
Destructure(body) ==
  [message |-> body.message,
   conversationHistory |->
     IF body.conversationHistory = Undefined THEN Arr(<<>>) ELSE body.conversationHistory,
   selectedText |-> IF body.selectedText = Undefined THEN Str(<<>>) ELSE body.selectedText,
   image |-> body.image]

\* message.trim() on a truthy value that is no string: trim is not a function.
TrimThrows(message) == Truthy(message) /\ message.t # "string"

\* !message || message.trim() === ''
MessageBlank(message) ==
  IF ~Truthy(message) THEN TRUE ELSE Trim(message.s) = <<>>

\* (!message || message.trim() === '') && !image
InvalidRequest(message, image) == MessageBlank(message) /\ ~Truthy(image)

\* Variant: only an unset variable counts as missing, an empty one does not.
MisconfiguredUnset == env.OPENAI_API_KEY = Undefined

\* !process.env.OPENAI_API_KEY
Misconfigured == ~Truthy(env.OPENAI_API_KEY)

PromptHead == <<"You are BarbaraIA, an educational AI tutor for K-12 students. ...", "\n", "\n">>

PromptTail == <<"\n", "\n", "Always respond in a friendly, educational manner. ...">>

\* The template literal: selectedText is interpolated only when truthy.
systemPrompt(selectedText) ==
  Str(PromptHead
      \o (IF Truthy(selectedText)
          THEN <<"The student has selected this text from their PDF: \"">>
               \o selectedText.s \o <<"\"">>
          ELSE <<>>)
      \o PromptTail)

TextPart(text) == [type |-> "text", text |-> text]

ImagePart(url) == [type |-> "image_url", image_url |-> [url |-> url]]

\* msg.role === 'user' ? 'user' : 'assistant'
TurnRole(msg) == IF msg.role = Str(<<"user">>) THEN "user" ELSE "assistant"

\* The callback of conversationHistory.map
TranslateTurn(msg) ==
  IF Truthy(msg.image)
  THEN [role |-> TurnRole(msg),
        content |-> Arr(<<TextPart(msg.content), ImagePart(msg.image)>>)]
  ELSE [role |-> TurnRole(msg), content |-> msg.content]

\* The object pushed for the current message
CurrentMessage(message, image) ==
  IF Truthy(image)
  THEN [role |-> "user",
        content |->
          Arr(<<TextPart(IF Truthy(message) THEN message
                         ELSE Str(<<"What do you see in this image?">>)),
                ImagePart(image)>>)]
  ELSE [role |-> "user", content |-> message]

\* Variant: the current message is placed before the history.
BuildMessagesCurrentFirst(message, history, selectedText, image) ==
  <<[role |-> "system", content |-> systemPrompt(selectedText)]>>
  \o <<CurrentMessage(message, image)>>
  \o [i \in 1..Len(history) |-> TranslateTurn(history[i])]

\* const messages = [system, ...history.map(...)]; messages.push(current)
BuildMessages(message, history, selectedText, image) ==
  <<[role |-> "system", content |-> systemPrompt(selectedText)]>>
  \o [i \in 1..Len(history) |-> TranslateTurn(history[i])]
  \o <<CurrentMessage(message, image)>>

\* Variant: the image is tested for being given, so an empty one counts.
SelectModelDefined(image) ==
  IF image.t \notin {"undefined", "null"} THEN "gpt-4o" ELSE "gpt-4o-mini"

\* image ? 'gpt-4o' : 'gpt-4o-mini'
SelectModel(image) == IF Truthy(image) THEN "gpt-4o" ELSE "gpt-4o-mini"

\* The argument of openai.chat.completions.create
CreateParams(d) ==
  [model |-> SelectModel(d.image),
   messages |-> BuildMessages(d.message, d.conversationHistory.a, d.selectedText, d.image),
   temperature |-> "0.7", max_tokens |-> 500]

Respond(status, json) ==
  [kind |-> "respond", response |-> [by |-> "tutor", status |-> status, json |-> json]]

\* Variant: the test is inverted, the detail is withheld only in development.
ErrorDetailsInverted(error) ==
  IF env.NODE_ENV # Str(<<"development">>) THEN error.message ELSE Undefined

\* details: process.env.NODE_ENV === 'development' ? error.message : undefined
ErrorDetails(error) ==
  IF env.NODE_ENV = Str(<<"development">>) THEN error.message ELSE Undefined

\* Variant: the 429 branch is missing and falls to the generic 500.
CatchNoRateLimit(error) ==
  IF error.status = Num(401)
  THEN Respond(401, [error |-> Str(<<"Invalid OpenAI API key">>), details |-> Undefined])
  ELSE IF error.status = Num(500)
  THEN Respond(500, [error |-> Str(<<"OpenAI service error. Please try again later.">>),
                     details |-> Undefined])
  ELSE Respond(500, [error |-> Str(<<"Failed to get AI response">>),
                     details |-> ErrorDetails(error)])

\* The catch block
Catch(error) ==
  IF error.status = Num(401)
  THEN Respond(401, [error |-> Str(<<"Invalid OpenAI API key">>), details |-> Undefined])
  ELSE IF error.status = Num(429)
  THEN Respond(429, [error |-> Str(<<"Rate limit exceeded. Please try again later.">>),
                     details |-> Undefined])
  ELSE IF error.status = Num(500)
  THEN Respond(500, [error |-> Str(<<"OpenAI service error. Please try again later.">>),
                     details |-> Undefined])
  ELSE Respond(500, [error |-> Str(<<"Failed to get AI response">>),
                     details |-> ErrorDetails(error)])

\* The try block up to the await: a response, a thrown error, or the upstream call.
TutorTry(body) ==
  IF body = Undefined
  THEN [kind |-> "throw",
        error |-> TypeError("Cannot destructure property 'message' of 'req.body' as it is undefined.")]
  ELSE LET d == Destructure(body) IN
    IF TrimThrows(d.message)
    THEN [kind |-> "throw", error |-> TypeError("message.trim is not a function")]
    ELSE IF InvalidRequest(d.message, d.image)
    THEN Respond(400, [error |-> Str(<<"Message or image is required">>),
                       details |-> Undefined])
    ELSE IF Misconfigured
    THEN Respond(500,
           [error |-> Str(<<"OpenAI API key not configured. Please set OPENAI_API_KEY environment variable.">>),
            details |-> Undefined])
    ELSE IF d.conversationHistory.t = "null"
    THEN [kind |-> "throw", error |-> TypeError("Cannot read properties of null (reading 'map')")]
    ELSE IF d.conversationHistory.t # "array"
    THEN [kind |-> "throw",
          error |-> TypeError("conversationHistory.map is not a function or its return value is not iterable")]
    ELSE [kind |-> "call", call |-> CreateParams(d)]

\* The try block after the await: the completion is unpacked and sent, or the
\* rejection (or the TypeError of unpacking) is thrown.
TutorAwaited(outcome) ==
  IF outcome.kind = "reject"
  THEN [kind |-> "throw", error |-> outcome.error]
  ELSE IF Len(outcome.completion.choices) = 0
  THEN [kind |-> "throw", error |-> TypeError("Cannot read properties of undefined (reading 'message')")]
  ELSE [kind |-> "respond",
        response |->
          [by |-> "tutor", status |-> 200,
           json |-> [response |-> outcome.completion.choices[1].message.content,
                     usage |-> outcome.completion.usage]]]

\* Variant: no catch, what the try block throws leaves the handler.
TryNoCatch(result) == result

\* try { ... } catch (error) { ... }
TryCatch(result) == IF result.kind = "throw" THEN Catch(result.error) ELSE result

\* The handler from its entry to the await or to its response
TutorEnter(body) == TryCatch(TutorTry(body))

\* Variant: a rate-limited call is issued again instead of being reported.
TutorSettleRetry(outcome) ==
  IF outcome.kind = "reject" /\ outcome.error.status = Num(429)
  THEN [kind |-> "call", call |-> [model |-> "gpt-4o-mini", messages |-> <<>>,
                                  temperature |-> "0.7", max_tokens |-> 500]]
  ELSE TryCatch(TutorAwaited(outcome))

\* The handler from the settled upstream call to its response
TutorSettle(outcome) == TryCatch(TutorAwaited(outcome))

----------------------------------------------------------------------------
\* The state machine of one server process

Slots == 1..MaxInFlight

\* A slot with no exchange in it; ncalls counts the upstream calls of the
\* exchange in the slot.
FreeSlot == [pc |-> "idle", ncalls |-> 0]

NoRun == [slot |-> 0, phase |-> "none"]

Init ==
  /\ env \in Envs
  /\ slots = [s \in Slots |-> FreeSlot]
  /\ run = NoRun
  /\ req = NoRequest
  /\ calls = <<>>
  /\ settled = NoOutcome
  /\ responses = <<>>
  /\ fault = FALSE

\* What the run of an exchange's code between two returns to the event loop
\* read (request, outcome) and did (calls, responses, fault).
Ran(s, phase, request, outcome, issued, sent, escaped) ==
  /\ run' = [slot |-> s, phase |-> phase]
  /\ req' = request
  /\ settled' = outcome
  /\ calls' = issued
  /\ responses' = sent
  /\ fault' = escaped
  /\ UNCHANGED env

\* A request arrives with an Origin the CORS layer refuses: next(err), no
\* route handler runs and the exchange is over.
CorsRefuse(s) ==
  /\ slots[s].pc = "idle"
  /\ \E route \in Routes, origin \in Origins :
       /\ ~OriginAllowed(origin)
       /\ Ran(s, "arrive", [route |-> route, origin |-> origin, body |-> Unread],
              NoOutcome, <<>>, <<CorsRejection>>, FALSE)
  /\ UNCHANGED slots

\* GET /health passes the CORS layer; it has no body to read, so the handler
\* answers in the same run and the exchange is over.
Health(s) ==
  /\ slots[s].pc = "idle"
  /\ \E origin \in Origins :
       /\ OriginAllowed(origin)
       /\ Ran(s, "arrive", [route |-> "health", origin |-> origin, body |-> Unread],
              NoOutcome, <<>>, <<HealthResponse>>, FALSE)
  /\ UNCHANGED slots

\* POST /api/tutor passes the CORS layer; express.json() reads the body before
\* the handler runs.
TutorAdmit(s) ==
  /\ slots[s].pc = "idle"
  /\ \E origin \in Origins :
       /\ OriginAllowed(origin)
       /\ Ran(s, "arrive", [route |-> "tutor", origin |-> origin, body |-> Unread],
              NoOutcome, <<>>, <<>>, FALSE)
  /\ slots' = [slots EXCEPT ![s].pc = "parsing"]

\* What a run of the handler leaves in its slot: it waits for the upstream
\* call it issued, or the exchange is over.
Step(s, result) ==
  slots' = [slots EXCEPT ![s] =
              IF result.kind = "call"
              THEN [pc |-> "awaiting", ncalls |-> slots[s].ncalls + 1]
              ELSE FreeSlot]

Issued(result) == IF result.kind = "call" THEN <<result.call>> ELSE <<>>

Sent(result) == IF result.kind = "respond" THEN <<result.response>> ELSE <<>>

\* app.post('/api/tutor'): entry to the await or to the response
TutorStart(s) ==
  /\ slots[s].pc = "parsing"
  /\ \E body \in Bodies :
       LET result == TutorEnter(body) IN
         /\ Step(s, result)
         /\ Ran(s, "start", [route |-> "tutor", origin |-> Unread, body |-> body],
                NoOutcome, Issued(result), Sent(result), result.kind = "throw")

\* app.post('/api/tutor'): the awaited upstream call settles
TutorResume(s) ==
  /\ slots[s].pc = "awaiting"
  /\ \E o \in Outcomes :
       LET result == TutorSettle(o) IN
         /\ Step(s, result)
         /\ Ran(s, "resume", [route |-> "tutor", origin |-> Unread, body |-> Unread],
                o, Issued(result), Sent(result), result.kind = "throw")

Next ==
  \E s \in Slots :
    \/ CorsRefuse(s)
    \/ Health(s)
    \/ TutorAdmit(s)
    \/ TutorStart(s)
    \/ TutorResume(s)

Spec == Init /\ [][Next]_vars

----------------------------------------------------------------------------
\* Vocabulary of the properties, stated on the most recent run

\* The run was a request's arrival at the CORS layer.
Arrived == run.phase = "arrive"

\* The run was the tutor handler from its entry.
Started == run.phase = "start"

\* The run was the tutor handler after its upstream call settled.
Resumed == run.phase = "resume"

\* The slot of the exchange whose code ran
RunSlot == slots[run.slot]

\* Another exchange is waiting for its upstream call.
OtherAwaiting == \E s \in Slots : s # run.slot /\ slots[s].pc = "awaiting"

HasBody == req.body.t = "object"

ReqMessage == IF HasBody THEN req.body.message ELSE Undefined

ReqImage == IF HasBody THEN req.body.image ELSE Undefined

\* The turns of conversationHistory; an omitted history has none.
ReqTurns ==
  IF HasBody /\ req.body.conversationHistory.t = "array"
  THEN req.body.conversationHistory.a
  ELSE <<>>

\* Absent, empty or whitespace-only text
BlankText(v) ==
  \/ v.t \in {"undefined", "null"}
  \/ v.t = "string" /\ \A i \in DOMAIN v.s : v.s[i] \in WhiteSpace

\* No image: absent or empty
NoImage(v) == v.t \in {"undefined", "null"} \/ v = Str(<<>>)

\* The credential variable is unset or empty.
KeyNotConfigured == env.OPENAI_API_KEY.t = "undefined" \/ env.OPENAI_API_KEY = Str(<<>>)

OriginRefused == Truthy(req.origin) /\ req.origin \notin Range(allowedOrigins)

Answered(status) == Len(responses) = 1 /\ responses[1].status = status

AnsweredWith(status, text) ==
  /\ Answered(status)
  /\ responses[1].json.error = Str(<<text>>)

MisconfiguredText ==
  "OpenAI API key not configured. Please set OPENAI_API_KEY environment variable."

\* A message the test !message takes for missing: absent, null, '', 0, false
FalsyMessage(v) ==
  \/ v.t \in {"undefined", "null"}
  \/ v = Str(<<>>)
  \/ v = Num(0)
  \/ v = Bool(FALSE)

\* A message the validation cannot evaluate: not falsy and not a string, so
\* it has no trim().
UnusableMessage(v) == ~FalsyMessage(v) /\ v.t # "string"

\* A message the validation takes for missing: falsy, or a string of
\* whitespace only
MissingMessage(v) ==
  \/ FalsyMessage(v)
  \/ v.t = "string" /\ \A i \in DOMAIN v.s : v.s[i] \in WhiteSpace

\* The validation can evaluate the body and accepts it: a non-blank string
\* message, or an image beside a message that is falsy or a string.
PassesValidation ==
  /\ HasBody
  /\ ~UnusableMessage(ReqMessage)
  /\ ~(MissingMessage(ReqMessage) /\ NoImage(ReqImage))

----------------------------------------------------------------------------
\* C1: every POST /api/tutor request whose message is absent, empty or
\* whitespace-only and whose image is absent is answered 400 and causes no
\* upstream call; every upstream call made carries a non-blank message or an
\* image.  (Fails: a request with no body at all is answered 500.)
C1_BlankRequestIs400 ==
  /\ (Started /\ BlankText(ReqMessage) /\ NoImage(ReqImage))
       => (calls = <<>> /\ Answered(400) /\ RunSlot = FreeSlot)
  /\ (calls # <<>>) => (Started /\ ~(BlankText(ReqMessage) /\ NoImage(ReqImage)))

\* C2 as stated: while the credential is not configured every handled
\* POST /api/tutor request is answered 500 with the misconfiguration message,
\* whatever its body.
C2_AlwaysMisconfigured500 ==
  (Started /\ KeyNotConfigured) => AnsweredWith(500, MisconfiguredText)

\* C2 amended: while the credential is not configured no upstream call is made
\* and the handler answers at once, validation first: a request with no body,
\* or whose message is truthy but no string (a non-zero number, true), is
\* answered 500 with the generic failure message; otherwise a request with no
\* image whose message is falsy (absent, null, '', 0, false) or whitespace-only
\* is answered 400; every other request (a non-blank string message, or an
\* image beside a message that is falsy or a string) is answered 500 with the
\* misconfiguration message.
C2_MisconfiguredAfterValidation ==
  KeyNotConfigured =>
    /\ calls = <<>>
    /\ \A s \in Slots : slots[s].pc # "awaiting" /\ slots[s].ncalls = 0
    /\ Started =>
         IF ~HasBody \/ UnusableMessage(ReqMessage)
         THEN AnsweredWith(500, "Failed to get AI response")
         ELSE IF MissingMessage(ReqMessage) /\ NoImage(ReqImage)
         THEN AnsweredWith(400, "Message or image is required")
         ELSE AnsweredWith(500, MisconfiguredText)

C2_Witness ==
  /\ Started
  /\ env.OPENAI_API_KEY = Str(<<>>)
  /\ ReqMessage = Num(0)
  /\ ReqImage = ImageRef
  /\ PassesValidation
  /\ AnsweredWith(500, MisconfiguredText)

\* C3: every upstream call uses gpt-4o exactly when the request's image is
\* non-empty (even with an empty message) and gpt-4o-mini otherwise, whatever
\* the conversation history carries.
C3_ModelByImageOnly ==
  \A i \in DOMAIN calls :
    /\ Started
    /\ calls[i].model = IF NoImage(ReqImage) THEN "gpt-4o-mini" ELSE "gpt-4o"

C3_Witness ==
  /\ Started
  /\ Len(calls) = 1
  /\ NoImage(ReqImage)
  /\ \E i \in DOMAIN ReqTurns : ~NoImage(ReqTurns[i].image)
  /\ calls[1].model = "gpt-4o-mini"

\* C4: when the upstream call fails, the response is determined by the upstream
\* error status alone: 401 gives 401 invalid-key, 429 gives 429 rate-limit,
\* 500 gives 500 upstream-error, any other failure 500 generic.
C4_StatusByUpstreamError ==
  (Resumed /\ settled.kind = "reject") =>
    LET st == settled.error.status IN
      /\ Len(responses) = 1
      /\ <<responses[1].status, responses[1].json.error>> =
           IF st = Num(401) THEN <<401, Str(<<"Invalid OpenAI API key">>)>>
           ELSE IF st = Num(429)
             THEN <<429, Str(<<"Rate limit exceeded. Please try again later.">>)>>
           ELSE IF st = Num(500)
             THEN <<500, Str(<<"OpenAI service error. Please try again later.">>)>>
           ELSE <<500, Str(<<"Failed to get AI response">>)>>

C4_Witness ==
  /\ Resumed
  /\ settled.kind = "reject"
  /\ settled.error.status = Num(429)
  /\ Answered(429)
  /\ OtherAwaiting

\* C5: a request with an Origin header that is not in the configured allow-list
\* is rejected by the CORS layer and never reaches the handler (no validation,
\* no upstream call); a request with no Origin header or an allowed Origin
\* passes the layer.
C5_CorsGate ==
  Arrived =>
    IF OriginRefused
    THEN /\ responses = <<CorsRejection>>
         /\ calls = <<>>
         /\ RunSlot = FreeSlot
    ELSE /\ \A i \in DOMAIN responses : responses[i].by # "cors"
         /\ IF req.route = "tutor"
            THEN RunSlot.pc = "parsing" /\ responses = <<>>
            ELSE Len(responses) = 1 /\ responses[1].by = "health"

C5_Witness ==
  /\ Arrived
  /\ req.route = "tutor"
  /\ req.origin = Str(<<"https://b.example">>)
  /\ env.ALLOWED_ORIGINS # Undefined
  /\ responses = <<CorsRejection>>

\* C6 as stated: GET /health is answered 200 for every request, whatever its
\* Origin header, with openaiConfigured true exactly when the credential
\* variable is non-empty.
C6_HealthAlways200 ==
  (Arrived /\ req.route = "health") =>
    /\ Answered(200)
    /\ responses[1].json.openaiConfigured = ~KeyNotConfigured

\* C6 amended: GET /health is answered 200, in every configuration, for every
\* request that passes the CORS layer (no Origin header, or an allowed Origin),
\* with openaiConfigured true exactly when the credential variable is
\* non-empty; a request whose Origin is not allowed is rejected by the CORS
\* layer before the health handler runs.
C6_HealthBehindCors ==
  (Arrived /\ req.route = "health") =>
    IF OriginRefused
    THEN responses = <<CorsRejection>>
    ELSE /\ Answered(200)
         /\ responses[1].by = "health"
         /\ responses[1].json.openaiConfigured = ~KeyNotConfigured

C6_Witness ==
  /\ Arrived
  /\ req.route = "health"
  /\ env.OPENAI_API_KEY = Str(<<>>)
  /\ Truthy(req.origin)
  /\ Answered(200)
  /\ responses[1].json.openaiConfigured = FALSE
  /\ \E s \in Slots : s # run.slot /\ slots[s].pc = "parsing"

\* C7: the outbound message list is the system message, then the translation
\* of each history turn in order, then the current user message (length =
\* turns + 2); a turn with an image becomes the text part followed by the
\* image part, a text-only turn plain text, and a turn's role is 'user' if it
\* was 'user' and 'assistant' otherwise.
C7_OutboundMessages ==
  \A c \in DOMAIN calls :
    LET m == calls[c].messages IN
      /\ Started
      /\ Len(m) = Len(ReqTurns) + 2
      /\ m[1].role = "system"
      /\ m[Len(m)].role = "user"
      /\ m[Len(m)].content =
           IF NoImage(ReqImage) THEN ReqMessage
           ELSE Arr(<<[type |-> "text",
                       text |-> IF ReqMessage.t = "string" /\ ReqMessage.s # <<>>
                                THEN ReqMessage
                                ELSE Str(<<"What do you see in this image?">>)],
                      [type |-> "image_url", image_url |-> [url |-> ReqImage]]>>)
      /\ \A i \in DOMAIN ReqTurns :
           LET turn == ReqTurns[i] IN
             /\ m[i + 1].role =
                  IF turn.role = Str(<<"user">>) THEN "user" ELSE "assistant"
             /\ m[i + 1].content =
                  IF NoImage(turn.image) THEN turn.content
                  ELSE Arr(<<[type |-> "text", text |-> turn.content],
                             [type |-> "image_url", image_url |-> [url |-> turn.image]]>>)

C7_Witness ==
  /\ Started
  /\ Len(calls) = 1
  /\ Len(ReqTurns) = MaxHistory
  /\ ~NoImage(ReqTurns[1].image)
  /\ NoImage(ReqTurns[MaxHistory].image)
  /\ ReqTurns[1].role = Str(<<"system">>)
  /\ Len(calls[1].messages) = MaxHistory + 2

\* C8: every POST /api/tutor request that enters the handler ends with exactly
\* one response whose status is 200, 400, 401, 429 or 500, for every body and
\* every upstream outcome; nothing leaves the handler as an unhandled fault and
\* no request is left unanswered: a run of the handler either leaves the
\* exchange waiting for its one upstream call, unanswered so far, or ends it
\* with one response.
C8_ExactlyOneResponse ==
  (Started \/ Resumed) =>
    /\ ~fault
    /\ IF RunSlot.pc = "awaiting"
       THEN Started /\ responses = <<>> /\ Len(calls) = 1
       ELSE /\ RunSlot = FreeSlot
            /\ Len(responses) = 1
            /\ responses[1].by = "tutor"
            /\ responses[1].status \in {200, 400, 401, 429, 500}

C8_Witness ==
  /\ Resumed
  /\ settled.kind = "resolve"
  /\ settled.completion.choices = <<>>
  /\ Answered(500)
  /\ OtherAwaiting

\* C9: at most one upstream call is made for a request; after an upstream
\* failure the handler makes no further call and answers with the failure.
C9_SingleUpstreamCall ==
  /\ \A s \in Slots : slots[s].ncalls <= 1
  /\ Len(calls) <= 1
  /\ Resumed =>
       /\ calls = <<>>
       /\ RunSlot = FreeSlot
       /\ (settled.kind = "reject") => (Len(responses) = 1 /\ responses[1].status # 200)

C9_Witness ==
  /\ Resumed
  /\ settled.kind = "reject"
  /\ settled.error.status = Num(429)
  /\ RunSlot = FreeSlot
  /\ \A s \in Slots : s # run.slot => slots[s] = [pc |-> "awaiting", ncalls |-> 1]

\* C10: a response carries an error detail only when the server does not run
\* in production mode, and only in the generic 500 'any other failure'
\* response; never with 400, 401, 429 or the mapped upstream 500.
C10_DetailsOnlyOutsideProduction ==
  \A i \in DOMAIN responses :
    LET r == responses[i] IN
      ("details" \in DOMAIN r.json /\ r.json.details # Undefined) =>
        /\ env.NODE_ENV # Str(<<"production">>)
        /\ r.status = 500
        /\ r.json.error = Str(<<"Failed to get AI response">>)

C10_Witness ==
  /\ Resumed
  /\ env.NODE_ENV = Str(<<"development">>)
  /\ settled.kind = "reject"
  /\ Len(responses) = 1
  /\ responses[1].json.details = Str(<<"upstream said no">>)

====
